---- MODULE Spec2Model ----
(***************************************************************************)
(* Model of bank.py: the bank-statement report script.                     *)
(*                                                                         *)
(* Text is a sequence of one-character strings, so that replace, strip,    *)
(* startswith, lower, "in" and float() are computed character by           *)
(* character.  A float is kept as an exact integer count of units of       *)
(* 10^-FracDigits (fixed point); binary rounding of IEEE doubles is not    *)
(* modelled.                                                               *)
(***************************************************************************)
EXTENDS Integers, Sequences, FiniteSets, TLC

VARIABLES pc, table, rows, df, report, total_debit, total_credit, net_cash,
          monthly, category_summary, arg, ret, sample

vars == <<pc, table, rows, df, report, total_debit, total_credit, net_cash,
          monthly, category_summary, arg, ret, sample>>

(***************************************************************************)
(* Bounds.                                                                 *)
(***************************************************************************)
\* fraction digits a fixed-point amount keeps, and an amount text may carry
FracDigits == 2
\* integer digits of a generated decimal (4 makes a thousands separator appear)
MaxIntDigits == 4
\* tokens a generated particulars text is made of
MaxTokens == 3
\* data rows of one extracted table
MaxTableRows == 2
\* rows the extraction loop accumulates over all pages
MaxRows == 3

Scale == 10 ^ FracDigits

(***************************************************************************)
(* Text helpers: Python str methods.                                       *)
(***************************************************************************)
\* the object None of the host language, as a cell or argument value
None == <<"<None>">>

NoneText == <<"N", "o", "n", "e">>

\* str(x): None prints as the text None, a text is itself
Str(x) == IF x = None THEN NoneText ELSE x

Whitespace == {" ", "\t", "\n"}

Digits == <<"0", "1", "2", "3", "4", "5", "6", "7", "8", "9">>

IsDigit(c) == \E i \in 1..Len(Digits) : Digits[i] = c

DigitVal(c) == (CHOOSE i \in 1..Len(Digits) : Digits[i] = c) - 1

\* x.replace(",", "")
RemoveCommas(s) == SelectSeq(s, LAMBDA c : c # ",")

RECURSIVE LStrip(_)
LStrip(s) == IF s # <<>> /\ Head(s) \in Whitespace THEN LStrip(Tail(s)) ELSE s

RECURSIVE RStrip(_)
RStrip(s) == IF s # <<>> /\ s[Len(s)] \in Whitespace
             THEN RStrip(SubSeq(s, 1, Len(s) - 1)) ELSE s

\* x.strip()
Strip(s) == RStrip(LStrip(s))

StartsWith(s, c) == s # <<>> /\ s[1] = c

EndsWith(s, c) == s # <<>> /\ s[Len(s)] = c

(***************************************************************************)
(* float(text) of the host language, for texts over digits, sign, point,   *)
(* whitespace and any other character: surrounding whitespace is dropped,  *)
(* one optional sign, digits with at most one point and at least one       *)
(* digit; anything else raises ValueError.                                 *)
(***************************************************************************)
RECURSIVE DigitsValue(_)
DigitsValue(s) == IF s = <<>> THEN 0
                  ELSE DigitsValue(SubSeq(s, 1, Len(s) - 1)) * 10 + DigitVal(s[Len(s)])

\* the fraction digits as units of 10^-FracDigits (digits beyond them are cut)
FracValue(f) == IF Len(f) <= FracDigits
                THEN DigitsValue(f) * (10 ^ (FracDigits - Len(f)))
                ELSE DigitsValue(SubSeq(f, 1, FracDigits))

Raise == [err |-> TRUE, val |-> 0]

Value(v) == [err |-> FALSE, val |-> v]

UnsignedFloat(b) ==
    LET dots == {i \in 1..Len(b) : b[i] = "."}
    IN  IF \E i \in 1..Len(b) : ~IsDigit(b[i]) /\ b[i] # "." THEN Raise
        ELSE IF Cardinality(dots) > 1 THEN Raise
        ELSE IF Cardinality(dots) = Len(b) THEN Raise
        ELSE IF dots = {} THEN Value(DigitsValue(b) * Scale)
        ELSE LET p == CHOOSE i \in dots : TRUE
             IN  Value(DigitsValue(SubSeq(b, 1, p - 1)) * Scale
                       + FracValue(SubSeq(b, p + 1, Len(b))))

float(s) ==
    LET t == Strip(s)
    IN  IF t = <<>> THEN Raise
        ELSE IF t[1] = "-"
             THEN LET u == UnsignedFloat(Tail(t))
                  IN  IF u.err THEN Raise ELSE Value(-u.val)
        ELSE IF t[1] = "+" THEN UnsignedFloat(Tail(t))
        ELSE UnsignedFloat(t)

(***************************************************************************)
(* clean_amount (bank.py 15-19)                                            *)
(***************************************************************************)
\* faulty variant: the parenthesized branch forgets to negate
clean_amount_noneg(x) ==
    LET s == Strip(RemoveCommas(Str(x)))
    IN  IF StartsWith(s, "(") /\ EndsWith(s, ")")
        THEN float(SubSeq(s, 2, Len(s) - 1))
        ELSE IF s # <<>> /\ s # NoneText THEN float(s) ELSE Value(0)

\* faulty variant: a text float() rejects is swallowed as zero
clean_amount_swallow(x) ==
    LET s == Strip(RemoveCommas(Str(x)))
        r == IF StartsWith(s, "(") /\ EndsWith(s, ")")
             THEN LET v == float(SubSeq(s, 2, Len(s) - 1))
                  IN  IF v.err THEN Raise ELSE Value(-v.val)
             ELSE IF s # <<>> /\ s # NoneText THEN float(s) ELSE Value(0)
    IN  IF r.err THEN Value(0) ELSE r

clean_amount(x) ==
    LET s == Strip(RemoveCommas(Str(x)))
    IN  IF StartsWith(s, "(") /\ EndsWith(s, ")")
        THEN LET v == float(SubSeq(s, 2, Len(s) - 1))
             IN  IF v.err THEN Raise ELSE Value(-v.val)
        ELSE IF s # <<>> /\ s # NoneText THEN float(s) ELSE Value(0)

(***************************************************************************)
(* categorize (bank.py 96-103)                                             *)
(***************************************************************************)
UpperLetters == <<"A", "B", "C", "D", "E", "F", "G", "H", "I", "J", "K", "L", "M",
                  "N", "O", "P", "Q", "R", "S", "T", "U", "V", "W", "X", "Y", "Z">>

LowerLetters == <<"a", "b", "c", "d", "e", "f", "g", "h", "i", "j", "k", "l", "m",
                  "n", "o", "p", "q", "r", "s", "t", "u", "v", "w", "x", "y", "z">>

LowerChar(c) == IF \E i \in 1..Len(UpperLetters) : UpperLetters[i] = c
                THEN LowerLetters[CHOOSE i \in 1..Len(UpperLetters) : UpperLetters[i] = c]
                ELSE c

\* s.lower()
Lower(s) == [i \in 1..Len(s) |-> LowerChar(s[i])]

\* kw in d
Contains(kw, d) == \E i \in 0..(Len(d) - Len(kw)) : SubSeq(d, i + 1, i + Len(kw)) = kw

KwLoan == <<"l", "o", "a", "n">>

KwSalary == <<"s", "a", "l", "a", "r", "y">>

KwNeft == <<"n", "e", "f", "t">>

KwUpi == <<"u", "p", "i">>

KwTransfer == <<"t", "r", "a", "n", "s", "f", "e", "r">>

KwTfr == <<"t", "f", "r">>

\* faulty variant: the transfer rule is tried before the salary rule
categorize_reordered(desc) ==
    LET d == Lower(Str(desc))
    IN  IF Contains(KwLoan, d) THEN "Loan"
        ELSE IF Contains(KwTransfer, d) \/ Contains(KwTfr, d) THEN "Transfer"
        ELSE IF Contains(KwSalary, d) THEN "Salary"
        ELSE IF Contains(KwNeft, d) THEN "NEFT"
        ELSE IF Contains(KwUpi, d) THEN "UPI"
        ELSE "Others"

categorize(desc) ==
    LET d == Lower(Str(desc))
    IN  IF Contains(KwLoan, d) THEN "Loan"
        ELSE IF Contains(KwSalary, d) THEN "Salary"
        ELSE IF Contains(KwNeft, d) THEN "NEFT"
        ELSE IF Contains(KwUpi, d) THEN "UPI"
        ELSE IF Contains(KwTransfer, d) \/ Contains(KwTfr, d) THEN "Transfer"
        ELSE "Others"

(***************************************************************************)
(* pd.to_datetime(..., dayfirst=True, errors="coerce") (bank.py 49) on one *)
(* cell.  A date is the integer yyyymmdd; NaT is 0.  The texts modelled    *)
(* are D/M/YYYY and texts that are no date at all; a text that is only a   *)
(* month-first date is not among the modelled inputs.                      *)
(***************************************************************************)
NaT == 0

IsLeap(y) == (y % 4 = 0 /\ y % 100 # 0) \/ y % 400 = 0

DaysIn(m, y) == IF m = 2 THEN (IF IsLeap(y) THEN 29 ELSE 28)
                ELSE IF m \in {4, 6, 9, 11} THEN 30 ELSE 31

AllDigits(s) == \A i \in 1..Len(s) : IsDigit(s[i])

to_datetime(x) ==
    IF x = None THEN NaT
    ELSE LET sl == {i \in 1..Len(x) : x[i] = "/"}
         IN  IF Cardinality(sl) # 2 THEN NaT
             ELSE LET a  == CHOOSE i \in sl : \A j \in sl : i <= j
                      b  == CHOOSE i \in sl : \A j \in sl : i >= j
                      ds == SubSeq(x, 1, a - 1)
                      ms == SubSeq(x, a + 1, b - 1)
                      ys == SubSeq(x, b + 1, Len(x))
                  IN  IF ~(AllDigits(ds) /\ AllDigits(ms) /\ AllDigits(ys)) THEN NaT
                      ELSE IF ~(Len(ds) \in 1..2 /\ Len(ms) \in 1..2 /\ Len(ys) = 4) THEN NaT
                      ELSE LET d == DigitsValue(ds)
                               m == DigitsValue(ms)
                               y == DigitsValue(ys)
                           IN  IF m \in 1..12 /\ y >= 1 /\ d >= 1 /\ d <= DaysIn(m, y)
                               THEN y * 10000 + m * 100 + d
                               ELSE NaT

MonthNames == <<"January", "February", "March", "April", "May", "June", "July",
                "August", "September", "October", "November", "December">>

\* the missing value the Month column holds for NaT
NaN == "NaN"

\* Series.dt.strftime("%B %Y") on one value (bank.py 71)
strftime(date) == IF date = NaT THEN NaN
                  ELSE MonthNames[(date \div 100) % 100] \o " " \o ToString(date \div 10000)

(***************************************************************************)
(* Frames: a DataFrame is the sequence of its rows, a row a record.        *)
(***************************************************************************)
RECURSIVE SumCol(_, _)
\* Series.sum() of column col
SumCol(f, col) == IF f = <<>> THEN 0 ELSE f[1][col] + SumCol(Tail(f), col)

\* faulty variant: rows whose date is NaT are left out of the sum
SumColKnown(f, col) == SumCol(SelectSeq(f, LAMBDA r : r.Date # NaT), col)

\* df[col].sum() (bank.py 60-61)
ColumnSum(f, col) == SumCol(f, col)

\* faulty variant: the groups sum the Deposits column
groupby_sum_deposits(f, key, col) ==
    [k \in {f[i][key] : i \in 1..Len(f)} \ {NaN} |->
        SumCol(SelectSeq(f, LAMBDA r : r[key] = k), "Deposits")]

\* df.groupby(key)[col].sum(): one entry per key present; dropna is the
\* default, so rows whose key is NaN are in no group (bank.py 72, 106)
groupby_sum(f, key, col) ==
    [k \in {f[i][key] : i \in 1..Len(f)} \ {NaN} |->
        SumCol(SelectSeq(f, LAMBDA r : r[key] = k), col)]

Ordered(g) == \A i, j \in 1..Len(g) :
                 i < j => /\ (g[i].Date = NaT => g[j].Date = NaT)
                          /\ (g[i].Date # NaT /\ g[j].Date # NaT => g[i].Date <= g[j].Date)

Reorderings(f) == {[i \in 1..Len(f) |-> f[p[i]]] : p \in Permutations(1..Len(f))}

\* faulty variant: NaT sorts first
sort_values_nafirst(f) ==
    {g \in Reorderings(f) :
        \A i, j \in 1..Len(g) :
            i < j => /\ (g[j].Date = NaT => g[i].Date = NaT)
                     /\ (g[i].Date # NaT /\ g[j].Date # NaT => g[i].Date <= g[j].Date)}

\* df.sort_values("Date"): ascending, NaT last (na_position="last"); the
\* default kind is not stable, so equal dates come in any order (bank.py 50)
sort_values(f) == {g \in Reorderings(f) : Ordered(g)}

(***************************************************************************)
(* The documents: what page.extract_table() returns for a page.            *)
(***************************************************************************)
\* page.extract_table() of a page without a table (None or [], both falsy)
NoTable == <<>>

Empty == <<>>

\* a table row of n cells laid out as the statement is: date in cell 0,
\* particulars in cell 2, withdrawal, deposit and balance in cells 6 to 8
MkRow(date, part, w, d, b, n) ==
    SubSeq(<<date, Empty, part, Empty, Empty, Empty, w, d, b, Empty>>, 1, n)

HeaderRow == MkRow(<<"D", "a", "t", "e">>, <<"P", "a", "r", "t", "i", "c", "u", "l", "a", "r", "s">>, <<"W", "i", "t", "h", "d", "r", "a", "w", "a", "l", "s">>,
                   <<"D", "e", "p", "o", "s", "i", "t", "s">>, <<"B", "a", "l", "a", "n", "c", "e">>, 9)

RowSalary == MkRow(<<"0", "1", "/", "0", "2", "/", "2", "0", "2", "3">>,
                   <<"S", "a", "l", "a", "r", "y", " ", "C", "r", "e", "d", "i", "t">>,
                   <<"0">>, <<"5", "0", ",", "0", "0", "0", ".", "0", "0">>,
                   <<"5", "0", ",", "0", "0", "0", ".", "0", "0">>, 9)

RowLoan == MkRow(<<"0", "5", "/", "0", "2", "/", "2", "0", "2", "3">>,
                 <<"L", "o", "a", "n", " ", "E", "M", "I">>,
                 <<"(", "5", ",", "0", "0", "0", ".", "0", "0", ")">>, <<"0">>,
                 <<"4", "5", ",", "0", "0", "0", ".", "0", "0">>, 9)

\* the date is no date; the withdrawal is not zero
RowNoDate == MkRow(<<"a", "b", "c">>, <<"U", "P", "I", " ", "p", "a", "y", "m", "e", "n", "t">>,
                   <<"1", "0", "0", ".", "0", "0">>, Empty, None, 9)

\* ten cells; 15 January sorts before both February rows
RowNeft == MkRow(<<"1", "5", "/", "0", "1", "/", "2", "0", "2", "3">>,
                 <<"N", "E", "F", "T", " ", "T", "r", "a", "n", "s", "f", "e", "r">>,
                 <<"1", ",", "2", "0", "0", ".", "5", "0">>, None, <<"(", "3", "0", "0", ")">>, 10)

\* eight cells
RowShort == MkRow(<<"1", "5", "/", "0", "1", "/", "2", "0", "2", "3">>,
                  <<"G", "r", "o", "c", "e", "r", "y", " ", "s", "t", "o", "r", "e">>,
                  <<"1", "2", ".", "5">>, Empty, Empty, 8)

\* the withdrawal is no number
RowBadAmount == MkRow(<<"0", "5", "/", "0", "2", "/", "2", "0", "2", "3">>, <<"t", "f", "r", " ", "f", "e", "e">>,
                      <<"a", "b", "c">>, Empty, <<"1", ".", "0", "0">>, 9)

\* no date cell; a deposit and a whitespace-padded withdrawal
RowNoneDate == MkRow(None, <<"G", "r", "o", "c", "e", "r", "y", " ", "s", "t", "o", "r", "e">>,
                     <<" ", "7", " ">>, <<"3">>, Empty, 9)

\* the balance is an empty pair of parentheses
RowBadBalance == MkRow(<<"1", "5", "/", "0", "1", "/", "2", "0", "2", "3">>,
                       <<"S", "a", "l", "a", "r", "y">>, <<"5">>, None, <<"(", ")">>, 9)

RowPool == {RowSalary, RowLoan, RowNoDate, RowNeft, RowShort, RowBadAmount, RowBadBalance,
            RowNoneDate}

RECURSIVE SeqsUpTo(_, _)
SeqsUpTo(S, n) == IF n = 0 THEN {<<>>}
                  ELSE LET shorter == SeqsUpTo(S, n - 1)
                       IN  shorter \cup {Append(q, x) : q \in shorter, x \in S}

\* a page has no table, or a table of a header row and up to MaxTableRows rows
Tables == {NoTable} \cup {<<HeaderRow>> \o q : q \in SeqsUpTo(RowPool, MaxTableRows)}

(***************************************************************************)
(* The script.                                                             *)
(***************************************************************************)
NoSample == [int |-> <<>>, frac |-> <<>>, sep |-> FALSE, pad |-> 0, paren |-> FALSE, kind |-> "none"]

Init == /\ pc = "start"
        /\ table = NoTable
        /\ rows = <<>>
        /\ df = <<>>
        /\ report = "none"
        /\ total_debit = 0
        /\ total_credit = 0
        /\ net_cash = 0
        /\ monthly = <<>>
        /\ category_summary = <<>>
        /\ arg = <<>>
        /\ ret = Value(0)
        /\ sample = NoSample

Pure == <<arg, ret, sample>>

Totals == <<total_debit, total_credit, net_cash>>

\* uploaded_file is None: the extraction block is skipped (bank.py 22)
NoUpload == /\ pc = "start"
            /\ pc' = "report"
            /\ UNCHANGED <<table, rows, df, report, Totals, monthly, category_summary, Pure>>

\* pdfplumber.open (bank.py 23)
OpenPdf == /\ pc = "start"
           /\ pc' = "pages"
           /\ UNCHANGED <<table, rows, df, report, Totals, monthly, category_summary, Pure>>

\* the dict appended for a row (bank.py 31-37)
RowDict(row) == [Date |-> row[1], Particulars |-> row[3], Withdrawals |-> row[7],
                 Deposits |-> row[8], Balance |-> row[9]]

RECURSIVE AppendRows(_, _)
\* faulty variant: rows of fewer than 9 cells are not skipped when they have 8
AppendRowsFrom8(acc, rs) ==
    IF rs = <<>> THEN acc
    ELSE IF Len(Head(rs)) < 8 THEN AppendRows(acc, Tail(rs))
    ELSE AppendRows(Append(acc, RowDict(Head(rs) \o <<Empty>>)), Tail(rs))

\* the inner loop over table[1:] (bank.py 28-37)
AppendRows(acc, rs) ==
    IF rs = <<>> THEN acc
    ELSE IF Len(Head(rs)) < 9 THEN AppendRows(acc, Tail(rs))
    ELSE AppendRows(Append(acc, RowDict(Head(rs))), Tail(rs))

\* one iteration of the loop over pdf.pages (bank.py 24-37)
PageRows(acc, t) == IF t = <<>> THEN acc ELSE AppendRows(acc, Tail(t))

ExtractPage(t) == /\ pc = "pages"
                  /\ Len(PageRows(rows, t)) <= MaxRows
                  /\ table' = t
                  /\ rows' = PageRows(rows, t)
                  /\ UNCHANGED <<pc, df, report, Totals, monthly, category_summary, Pure>>

\* pdf.pages is exhausted and the with block closes the file
ClosePdf == /\ pc = "pages"
            /\ pc' = "report"
            /\ UNCHANGED <<table, rows, df, report, Totals, monthly, category_summary, Pure>>

\* if rows: ... else: st.info (bank.py 40, 126-127)
NoData == /\ pc = "report"
          /\ rows = <<>>
          /\ report' = "info"
          /\ pc' = "idle"
          /\ UNCHANGED <<table, rows, df, Totals, monthly, category_summary, Pure>>

AmountColumns == {"Withdrawals", "Deposits", "Balance"}

\* Series.apply(clean_amount) raises when clean_amount raises on a cell
ApplyRaises(f) == \E i \in 1..Len(f) : \E c \in AmountColumns : clean_amount(f[i][c]).err

CleanFrame(f) == [i \in 1..Len(f) |->
                    [Date |-> f[i].Date, Particulars |-> f[i].Particulars,
                     Withdrawals |-> clean_amount(f[i].Withdrawals).val,
                     Deposits |-> clean_amount(f[i].Deposits).val,
                     Balance |-> clean_amount(f[i].Balance).val]]

\* df = pd.DataFrame(rows) and the three apply(clean_amount) (bank.py 41-46);
\* a ValueError is not caught anywhere and ends the script
CleanAmounts == /\ pc = "report"
                /\ rows # <<>>
                /\ IF ApplyRaises(rows)
                   THEN /\ df' = rows
                        /\ pc' = "error"
                   ELSE /\ df' = CleanFrame(rows)
                        /\ pc' = "dates"
                /\ UNCHANGED <<table, rows, report, Totals, monthly, category_summary, Pure>>

DateFrame(f) == [i \in 1..Len(f) |-> [f[i] EXCEPT !.Date = to_datetime(f[i].Date)]]

\* to_datetime, sort_values and st.success (bank.py 49-52)
DateHandling == /\ pc = "dates"
                /\ df' \in sort_values(DateFrame(df))
                /\ report' = "success"
                /\ pc' = "summary"
                /\ UNCHANGED <<table, rows, Totals, monthly, category_summary, Pure>>

\* bank.py 60-62
Summary == /\ pc = "summary"
           /\ total_debit' = ColumnSum(df, "Withdrawals")
           /\ total_credit' = ColumnSum(df, "Deposits")
           /\ net_cash' = ColumnSum(df, "Deposits") - ColumnSum(df, "Withdrawals")
           /\ pc' = "monthly"
           /\ UNCHANGED <<table, rows, df, report, monthly, category_summary, Pure>>

MonthFrame(f) == [i \in 1..Len(f) |->
                    [Date |-> f[i].Date, Particulars |-> f[i].Particulars,
                     Withdrawals |-> f[i].Withdrawals, Deposits |-> f[i].Deposits,
                     Balance |-> f[i].Balance, Month |-> strftime(f[i].Date)]]

\* bank.py 71-72
MonthlyReport ==
    /\ pc = "monthly"
    /\ df' = MonthFrame(df)
    /\ monthly' = [c \in {"Withdrawals", "Deposits"} |-> groupby_sum(MonthFrame(df), "Month", c)]
    /\ pc' = "categories"
    /\ UNCHANGED <<table, rows, report, Totals, category_summary, Pure>>

CategoryFrame(f) == [i \in 1..Len(f) |->
                       [Date |-> f[i].Date, Particulars |-> f[i].Particulars,
                        Withdrawals |-> f[i].Withdrawals, Deposits |-> f[i].Deposits,
                        Balance |-> f[i].Balance, Month |-> f[i].Month,
                        Category |-> categorize(f[i].Particulars)]]

\* bank.py 105-106
Categories ==
    /\ pc = "categories"
    /\ df' = CategoryFrame(df)
    /\ category_summary' = groupby_sum(CategoryFrame(df), "Category", "Withdrawals")
    /\ pc' = "done"
    /\ UNCHANGED <<table, rows, report, Totals, monthly, Pure>>

Next == \/ NoUpload
        \/ OpenPdf
        \/ \E t \in Tables : ExtractPage(t)
        \/ ClosePdf
        \/ NoData
        \/ CleanAmounts
        \/ DateHandling
        \/ Summary
        \/ MonthlyReport
        \/ Categories

Spec == Init /\ [][Next]_vars

(***************************************************************************)
(* clean_amount on its own: the argument is a decimal written out in       *)
(* plain or accounting notation, or an empty or null-marker text.          *)
(***************************************************************************)
IntDigitPool == {"0", "1", "5"}

FracDigitPool == {"0", "5"}

\* digit sequences of 1..MaxIntDigits digits without a leading zero
IntParts == {q \in SeqsUpTo(IntDigitPool, MaxIntDigits) :
                Len(q) >= 1 /\ (Len(q) > 1 => q[1] # "0")}

FracParts == SeqsUpTo(FracDigitPool, FracDigits)

RECURSIVE Grouped(_)
\* the integer digits with a thousands separator before every third digit from the right
Grouped(q) == IF Len(q) <= 3 THEN q
              ELSE Grouped(SubSeq(q, 1, Len(q) - 3)) \o <<",">> \o SubSeq(q, Len(q) - 2, Len(q))

\* format_plain(d): digits, optional separators, optional fraction
FormatPlain(sm) == (IF sm.sep THEN Grouped(sm.int) ELSE sm.int)
                   \o (IF sm.frac = <<>> THEN <<>> ELSE <<".">> \o sm.frac)

\* surrounding whitespace: none, blanks, or a tab before and a newline after
Padded(t, pad) == IF pad = 0 THEN t
                  ELSE IF pad = 1 THEN <<" ">> \o t \o <<" ", " ">>
                  ELSE <<"\t">> \o t \o <<"\n">>

\* the text of a sample: format_parenthesized(d) or format_plain(d), padded
FormatSample(sm) ==
    IF sm.kind = "null" THEN sm.int
    ELSE IF sm.paren THEN Padded(<<"(">> \o FormatPlain(sm) \o <<")">>, sm.pad)
    ELSE Padded(FormatPlain(sm), sm.pad)

Samples == [int : IntParts, frac : FracParts, sep : BOOLEAN, pad : 0..2,
            paren : BOOLEAN, kind : {"decimal"}]
           \cup [int : {Empty, NoneText}, frac : {<<>>}, sep : {FALSE}, pad : {0},
                 paren : {FALSE}, kind : {"null"}]

InitAmount == /\ pc = "call"
              /\ sample \in Samples
              /\ arg = FormatSample(sample)
              /\ ret = Value(0)
              /\ table = NoTable
              /\ rows = <<>>
              /\ df = <<>>
              /\ report = "none"
              /\ total_debit = 0
              /\ total_credit = 0
              /\ net_cash = 0
              /\ monthly = <<>>
              /\ category_summary = <<>>

Pipeline == <<table, rows, df, report, total_debit, total_credit, net_cash,
              monthly, category_summary>>

CallCleanAmount == /\ pc = "call"
                   /\ ret' = clean_amount(arg)
                   /\ pc' = "returned"
                   /\ UNCHANGED <<arg, sample, Pipeline>>

SpecAmount == InitAmount /\ [][CallCleanAmount]_vars

(***************************************************************************)
(* categorize on its own: the argument is a particulars text made of up    *)
(* to MaxTokens tokens, or None.                                           *)
(***************************************************************************)
Tokens ==
    {<<"S", "a", "l", "a", "r", "y", " ">>,
     <<"T", "r", "a", "n", "s", "f", "e", "r">>,
     <<" ", "t", "o", " ", "X", "Y", "Z">>,
     <<"N", "E", "F", "T", " ">>,
     <<"U", "P", "I">>,
     <<" ", "p", "a", "y", "m", "e", "n", "t">>,
     <<"G", "r", "o", "c", "e", "r", "y">>,
     <<" ", "s", "t", "o", "r", "e">>,
     <<"l", "o", "a", "n">>,
     <<"T", "F", "R">>,
     <<"s", "a", "l">>,
     <<"a", "r", "y">>}

RECURSIVE Flatten(_)
Flatten(q) == IF q = <<>> THEN <<>> ELSE Head(q) \o Flatten(Tail(q))

Particulars == {Flatten(q) : q \in SeqsUpTo(Tokens, MaxTokens)} \cup {None}

InitCategorize == /\ pc = "call"
                  /\ arg \in Particulars
                  /\ ret = ""
                  /\ sample = NoSample
                  /\ table = NoTable
                  /\ rows = <<>>
                  /\ df = <<>>
                  /\ report = "none"
                  /\ total_debit = 0
                  /\ total_credit = 0
                  /\ net_cash = 0
                  /\ monthly = <<>>
                  /\ category_summary = <<>>

CallCategorize == /\ pc = "call"
                  /\ ret' = categorize(arg)
                  /\ pc' = "returned"
                  /\ UNCHANGED <<arg, sample, Pipeline>>

SpecCategorize == InitCategorize /\ [][CallCategorize]_vars

(***************************************************************************)
(* Properties.                                                             *)
(***************************************************************************)
AfterClean == {"dates", "summary", "monthly", "categories", "done"}

AfterSort == {"summary", "monthly", "categories", "done"}

AfterSummary == {"monthly", "categories", "done"}

RECURSIVE PlaceValue(_)
\* the number a digit sequence writes, most significant digit first
PlaceValue(q) == IF q = <<>> THEN 0
                 ELSE DigitVal(Head(q)) * (10 ^ (Len(q) - 1)) + PlaceValue(Tail(q))

\* the decimal d a sample writes, in units of 10^-FracDigits
DecimalOf(sm) == PlaceValue(sm.int) * Scale
                 + PlaceValue(sm.frac) * (10 ^ (FracDigits - Len(sm.frac)))

RECURSIVE SumFn(_)
\* the sum of the entries of a mapping
SumFn(f) == IF DOMAIN f = {} THEN 0
            ELSE LET k == CHOOSE x \in DOMAIN f : TRUE
                 IN  f[k] + SumFn([x \in DOMAIN f \ {k} |-> f[x]])

\* C1: clean_amount of a non-negative decimal d written in parentheses is -d,
\* of d written plainly is d (with or without thousands separators and
\* surrounding whitespace), and of the empty text or the text None is 0.
C1_AccountingNotation ==
    pc = "returned" =>
        IF sample.kind = "null" THEN ret = Value(0)
        ELSE /\ ~ret.err
             /\ ret.val = IF sample.paren THEN -DecimalOf(sample) ELSE DecimalOf(sample)

\* C1 witness: a parenthesized, padded decimal with a thousands separator
\* and a fraction has been coerced to a negative amount
C1_Witness ==
    /\ pc = "returned"
    /\ sample.kind = "decimal" /\ sample.paren /\ sample.sep /\ sample.pad > 0
    /\ Len(sample.int) > 3 /\ sample.frac # <<>>
    /\ ret.val < 0

\* C2: after normalization every withdrawal and every deposit is
\* non-negative, parenthesized cells included.
C2_NonNegativeAmounts ==
    pc \in AfterClean =>
        \A i \in 1..Len(df) : df[i].Withdrawals >= 0 /\ df[i].Deposits >= 0

(***************************************************************************)
(* C3: the ordered rules, stated apart from the code.                      *)
(***************************************************************************)
Rules == <<[kws |-> {KwLoan}, label |-> "Loan"],
           [kws |-> {KwSalary}, label |-> "Salary"],
           [kws |-> {KwNeft}, label |-> "NEFT"],
           [kws |-> {KwUpi}, label |-> "UPI"],
           [kws |-> {KwTransfer, KwTfr}, label |-> "Transfer"]>>

Labels == {"Loan", "Salary", "NEFT", "UPI", "Transfer", "Others"}

\* c is the lower-case letter k or its capital
SameLetter(c, k) == c = k \/ \E i \in 1..Len(LowerLetters) :
                                LowerLetters[i] = k /\ UpperLetters[i] = c

\* kw occurs in s as a substring, letters compared without regard to case
Occurs(kw, s) == \E o \in 0..(Len(s) - Len(kw)) :
                    \A k \in 1..Len(kw) : SameLetter(s[o + k], kw[k])

FirstMatch(s) ==
    LET hits == {r \in 1..Len(Rules) : \E kw \in Rules[r].kws : Occurs(kw, s)}
    IN  IF hits = {} THEN "Others"
        ELSE Rules[CHOOSE r \in hits : \A q \in hits : r <= q].label

TextSalaryTransfer == <<"S", "a", "l", "a", "r", "y", " ", "T", "r", "a", "n", "s", "f", "e", "r", " ", "t", "o", " ", "X", "Y", "Z">>

TextNeftUpi == <<"N", "E", "F", "T", " ", "U", "P", "I", " ", "p", "a", "y", "m", "e", "n", "t">>

TextGrocery == <<"G", "r", "o", "c", "e", "r", "y", " ", "s", "t", "o", "r", "e">>

\* C3: categorize returns exactly one label for every particulars text: the
\* label of the earliest rule one of whose keywords occurs in it, case
\* ignored, and Others when none occurs.
C3_FirstMatchWins ==
    pc = "returned" =>
        /\ ret \in Labels
        /\ ret = FirstMatch(Str(arg))
        /\ (arg = TextSalaryTransfer => ret = "Salary")
        /\ (arg = TextNeftUpi => ret = "NEFT")
        /\ (arg = TextGrocery => ret = "Others")

\* C3 witness: a text matching both the salary and the transfer rule was
\* labelled Salary
C3_Witness ==
    /\ pc = "returned"
    /\ arg = TextSalaryTransfer
    /\ Occurs(KwSalary, arg) /\ Occurs(KwTransfer, arg)
    /\ ret = "Salary"

\* C4: the monthly withdrawals add up to the total withdrawal and the
\* monthly deposits to the total deposit, records of unknown date included.
C4_MonthlySumsEqualTotals ==
    pc \in {"categories", "done"} =>
        /\ SumFn(monthly["Withdrawals"]) = total_debit
        /\ SumFn(monthly["Deposits"]) = total_credit

\* C5: the two rows of the end-to-end scenario give withdrawals 0 and
\* 5000.00, deposits 50000.00 and 0, categories Salary and Loan, February
\* 2023 totals of 5000.00 and 50000.00, and a net cash flow of 45000.00.
C5_EndToEnd ==
    (pc = "done" /\ rows = <<RowDict(RowSalary), RowDict(RowLoan)>>) =>
        /\ Len(df) = 2
        /\ df[1].Withdrawals = 0 /\ df[2].Withdrawals = 5000 * Scale
        /\ df[1].Deposits = 50000 * Scale /\ df[2].Deposits = 0
        /\ df[1].Category = "Salary" /\ df[2].Category = "Loan"
        /\ DOMAIN monthly["Withdrawals"] = {"February 2023"}
        /\ monthly["Withdrawals"]["February 2023"] = 5000 * Scale
        /\ monthly["Deposits"]["February 2023"] = 50000 * Scale
        /\ net_cash = 45000 * Scale

(***************************************************************************)
(* C6: what an amount text is, stated apart from the parser.               *)
(***************************************************************************)
AmountText(x) == Strip(RemoveCommas(Str(x)))

\* empty, or the null marker
IsBlank(x) == AmountText(x) \in {<<>>, NoneText}

\* an optional sign, then digits with at most one point and at least one digit
WellFormedNumber(t) ==
    LET b == IF t # <<>> /\ t[1] \in {"+", "-"} THEN Tail(t) ELSE t
    IN  /\ \E i \in 1..Len(b) : IsDigit(b[i])
        /\ \A i \in 1..Len(b) : IsDigit(b[i]) \/ b[i] = "."
        /\ \A i, j \in 1..Len(b) : b[i] = "." /\ b[j] = "." => i = j

IsAmountNotation(x) ==
    LET t == AmountText(x)
    IN  IF Len(t) >= 2 /\ t[1] = "(" /\ t[Len(t)] = ")"
        THEN WellFormedNumber(Strip(SubSeq(t, 2, Len(t) - 1)))
        ELSE WellFormedNumber(t)

Malformed(x) == ~IsBlank(x) /\ ~IsAmountNotation(x)

BadRow(r) == \E c \in AmountColumns : Malformed(r[c])

NoOutput == /\ report = "none"
            /\ total_debit = 0 /\ total_credit = 0 /\ net_cash = 0
            /\ monthly = <<>> /\ category_summary = <<>>

KeptRows(t) == {i \in 2..Len(t) : Len(t[i]) >= 9}

NthKept(t, k) == CHOOSE i \in KeptRows(t) : Cardinality({j \in KeptRows(t) : j <= i}) = k

\* C7: a page adds to rows exactly one record per table row that is not the
\* header and has at least 9 cells, in order; rows of fewer than 9 cells,
\* the header row and pages without a table add none, and the loop goes on.
C7_ShortRowsSkipped ==
    [][(pc = "pages" /\ pc' = "pages") =>
          /\ Len(rows') = Len(rows) + Cardinality(KeptRows(table'))
          /\ SubSeq(rows', 1, Len(rows)) = rows
          /\ \A k \in 1..Cardinality(KeptRows(table')) :
                LET r == rows'[Len(rows) + k]
                    c == table'[NthKept(table', k)]
                IN  /\ r.Date = c[1] /\ r.Particulars = c[3]
                    /\ r.Withdrawals = c[7] /\ r.Deposits = c[8] /\ r.Balance = c[9]]_vars

\* C7 witness: a table with a short row followed by a full row has been
\* read, and the only record is the full row's
C7_Witness ==
    /\ pc = "pages"
    /\ Len(rows) = 1
    /\ \E i, j \in 2..Len(table) :
          /\ i < j /\ Len(table[i]) < 9 /\ Len(table[j]) >= 9
          /\ rows[1].Particulars = table[j][3]

\* C8: after the sort the known dates are in non-decreasing order and the
\* unknown dates all come after them, whatever the order of the rows read.
C8_SortedNaTLast ==
    pc \in AfterSort =>
        /\ Len(df) = Len(rows)
        /\ \A i, j \in 1..Len(df) :
              i < j => /\ (df[i].Date # NaT /\ df[j].Date # NaT => df[i].Date <= df[j].Date)
                       /\ (df[i].Date = NaT => df[j].Date = NaT)

\* C8 witness: three rows read with the unknown date first and the later
\* date before the earlier one are sorted, the unknown date last
C8_Witness ==
    /\ pc = "summary"
    /\ Len(df) = 3
    /\ to_datetime(rows[1].Date) = NaT
    /\ to_datetime(rows[2].Date) > to_datetime(rows[3].Date)
    /\ to_datetime(rows[3].Date) # NaT
    /\ df[1].Date < df[2].Date /\ df[3].Date = NaT

\* a date cell that is missing or has no separator is no day-first date
NoDayFirstDate(x) == x = None \/ \A i \in 1..Len(x) : x[i] # "/"

RECURSIVE SumCleaned(_, _)
\* the cleaned amounts of a column of the rows read, added up
SumCleaned(rs, col) == IF rs = <<>> THEN 0
                       ELSE clean_amount(Head(rs)[col]).val + SumCleaned(Tail(rs), col)

\* C9: a row whose date cell is no day-first date is no error and is not
\* dropped: it is in the frame with the unknown date, and its withdrawal
\* and deposit are part of the totals.
C9_UnknownDateRetained ==
    /\ (pc = "error" => \E i \in 1..Len(rows) : BadRow(rows[i]))
    /\ pc \in AfterSort =>
          /\ Len(df) = Len(rows)
          /\ Cardinality({j \in 1..Len(df) : df[j].Date = NaT})
                >= Cardinality({i \in 1..Len(rows) : NoDayFirstDate(rows[i].Date)})
          /\ \A i \in 1..Len(rows) :
                NoDayFirstDate(rows[i].Date) =>
                    \E j \in 1..Len(df) :
                        /\ df[j].Date = NaT
                        /\ df[j].Particulars = rows[i].Particulars
                        /\ df[j].Withdrawals = clean_amount(rows[i].Withdrawals).val
                        /\ df[j].Deposits = clean_amount(rows[i].Deposits).val
    /\ pc \in AfterSummary =>
          /\ total_debit = SumCleaned(rows, "Withdrawals")
          /\ total_credit = SumCleaned(rows, "Deposits")

\* C9 witness: the totals are computed over a frame that holds a record of
\* unknown date with a withdrawal, beside a record of known date
C9_Witness ==
    /\ pc = "monthly"
    /\ \E i \in 1..Len(rows) : NoDayFirstDate(rows[i].Date)
    /\ \E j \in 1..Len(df) : df[j].Date = NaT /\ df[j].Withdrawals > 0
    /\ \E j \in 1..Len(df) : df[j].Date # NaT /\ df[j].Withdrawals > 0
    /\ total_debit > 0

RECURSIVE SumAt(_, _, _)
\* the column's values at a set of positions, added up
SumAt(f, col, S) == IF S = {} THEN 0
                    ELSE LET i == CHOOSE x \in S : TRUE
                         IN  f[i][col] + SumAt(f, col, S \ {i})

\* C10: the category summary has one entry per label present, each the sum
\* of the withdrawals of the transactions with that label (deposits play no
\* part), and the entries add up to the total withdrawal.
C10_CategorySummary ==
    pc = "done" =>
        /\ DOMAIN category_summary = {df[i].Category : i \in 1..Len(df)}
        /\ \A k \in DOMAIN category_summary :
              category_summary[k] =
                  SumAt(df, "Withdrawals", {i \in 1..Len(df) : df[i].Category = k})
        /\ \A i \in 1..Len(df) : df[i].Category = FirstMatch(Str(df[i].Particulars))
        /\ SumFn(category_summary) = total_debit

\* C10 witness: a finished report with two categories, a deposit, and a
\* category whose withdrawals are not zero
C10_Witness ==
    /\ pc = "done"
    /\ Cardinality(DOMAIN category_summary) >= 2
    /\ \E i \in 1..Len(df) : df[i].Deposits > 0 /\ df[i].Withdrawals > 0
    /\ \E k \in DOMAIN category_summary : category_summary[k] > 0

====
